---- MODULE Spec2Model ----
(***************************************************************************)
(* Model of the INI differ / patcher of utils-box (src/src/config.rs):     *)
(* ini_compare computes the structured delta of two INI documents,         *)
(* ini_update rewrites the text of the candidate file guided by the delta. *)
(* Strings are sequences of one-character strings, so that formatting,     *)
(* parsing and substring replacement are computed, not assumed.            *)
(* The bit utilities (bits.rs) and the stopwatch statistics (stopwatch.rs) *)
(* are modelled further down, each with a specification of its own.        *)
(***************************************************************************)
EXTENDS Integers, Sequences, FiniteSets, TLC

VARIABLES a_ini, b_ini, comparison, disk, file_stream, pc, arg, ret,
          keepers, stored

vars == <<a_ini, b_ini, comparison, disk, file_stream, pc, arg, ret,
          keepers, stored>>

(***************************************************************************)
(* Bounds of the model.                                                    *)
(***************************************************************************)
\* largest number of properties in one document of the differ's input space
MaxProps == 2
\* largest number of lines of a file of the patcher's input space
MaxLines == 3
\* largest length of a bit vector given to the bit utilities
MaxVecLen == 6
\* the bit streams given to bits_to_vec are below 2^MaxBitsWidth
MaxBitsWidth == 5
\* largest out_len given to bits_to_vec
MaxOutLen == 7

(***************************************************************************)
(* Strings.                                                                *)
(***************************************************************************)
version == <<"v", "e", "r", "s", "i", "o", "n">>

config_file_version ==
  <<"c", "o", "n", "f", "i", "g", "_", "f", "i", "l", "e", "_">> \o version

\* Option<String>: None, or Some(s) holding the string s
None == <<>>

Some(s) == <<s>>

\* all enumerations without repetition of a finite set: the orders in which
\* a HashSet may be iterated
RECURSIVE Perms(_)
Perms(S) ==
  IF S = {} THEN {<<>>}
  ELSE UNION {{<<x>> \o p : p \in Perms(S \ {x})} : x \in S}

Range(s) == {s[i] : i \in 1..Len(s)}

(***************************************************************************)
(* The document model the loader hands to ini_compare: an ordered list of  *)
(* sections whose first member is the general (None) section, each with    *)
(* an ordered list of <<key, value>> properties.                           *)
(***************************************************************************)
Keys(properties) == {properties[i][1] : i \in 1..Len(properties)}

\* Properties::get: the value of the first property named k
PropGet(properties, k) ==
  properties[CHOOSE i \in 1..Len(properties) :
               /\ properties[i][1] = k
               /\ \A j \in 1..(i - 1) : properties[j][1] # k][2]

\* Ini::iter().find(|(section, _)| section == s): first section named s
HasSection(ini, s) == \E i \in 1..Len(ini) : ini[i].section = s

FindSection(ini, s) ==
  ini[CHOOSE i \in 1..Len(ini) :
        /\ ini[i].section = s
        /\ \A j \in 1..(i - 1) : ini[j].section # s]

IniParameter(s, p, v) == [section |-> s, property |-> p, value |-> v]

\* IniCompare::new()
IniCompareNew == [updated |-> <<>>, added |-> <<>>, deleted |-> <<>>]

\* HashSet of the names of the named sections (filter_map drops None)
NamedSections(ini) ==
  {ini[i].section[1] : i \in {j \in 1..Len(ini) : ini[j].section # None}}

\* every property of a section, in document order, as parameters
SectionParams(sec) ==
  [i \in 1..Len(sec.props) |->
     IniParameter(sec.section, sec.props[i][1], sec.props[i][2])]

\* mutant of WholeSections: only the first property of a section is pushed
RECURSIVE WholeSections_FirstProperty(_, _)
WholeSections_FirstProperty(ini, order) ==
  IF order = <<>> THEN <<>>
  ELSE (IF HasSection(ini, Some(Head(order)))
        THEN LET params == SectionParams(FindSection(ini, Some(Head(order))))
             IN IF params = <<>> THEN <<>> ELSE <<params[1]>>
        ELSE <<>>) \o WholeSections_FirstProperty(ini, Tail(order))

\* pushes of one loop over a difference of section sets, visited in order
RECURSIVE WholeSections(_, _)
WholeSections(ini, order) ==
  IF order = <<>> THEN <<>>
  ELSE (IF HasSection(ini, Some(Head(order)))
        THEN SectionParams(FindSection(ini, Some(Head(order))))
        ELSE <<>>) \o WholeSections(ini, Tail(order))

\* mutant of KeyParams: a key whose value is the empty string is skipped
KeyParams_SkipEmpty(sec_name, properties, order) ==
  LET kept == SelectSeq(order, LAMBDA k : PropGet(properties, k) # <<>>)
  IN [i \in 1..Len(kept) |->
        IniParameter(sec_name, kept[i], PropGet(properties, kept[i]))]

\* parameters of the keys of a key set, visited in order
KeyParams(sec_name, properties, order) ==
  [i \in 1..Len(order) |->
     IniParameter(sec_name, order[i], PropGet(properties, order[i]))]

\* mutant of UpdatedPairs: the values are not compared
RECURSIVE UpdatedPairs_NoValueCheck(_, _, _, _)
UpdatedPairs_NoValueCheck(sec_name, a_properties, b_properties, order) ==
  IF order = <<>> THEN <<>>
  ELSE <<<<IniParameter(sec_name, Head(order), PropGet(a_properties, Head(order))),
           IniParameter(sec_name, Head(order), PropGet(b_properties, Head(order)))>>>>
       \o UpdatedPairs_NoValueCheck(sec_name, a_properties, b_properties,
                                    Tail(order))

\* mutant of UpdatedPairs: the loop stops after the first changed key
RECURSIVE UpdatedPairs_StopAtFirst(_, _, _, _)
UpdatedPairs_StopAtFirst(sec_name, a_properties, b_properties, order) ==
  IF order = <<>> THEN <<>>
  ELSE LET key == Head(order)
           a_value == PropGet(a_properties, key)
           b_value == PropGet(b_properties, key)
       IN IF a_value # b_value
          THEN <<<<IniParameter(sec_name, key, a_value),
                   IniParameter(sec_name, key, b_value)>>>>
          ELSE UpdatedPairs_StopAtFirst(sec_name, a_properties, b_properties,
                                        Tail(order))

\* the pairs pushed for the keys both sections have, visited in order
RECURSIVE UpdatedPairs(_, _, _, _)
UpdatedPairs(sec_name, a_properties, b_properties, order) ==
  IF order = <<>> THEN <<>>
  ELSE LET key == Head(order)
           a_value == PropGet(a_properties, key)
           b_value == PropGet(b_properties, key)
       IN (IF a_value # b_value
           THEN <<<<IniParameter(sec_name, key, a_value),
                    IniParameter(sec_name, key, b_value)>>>>
           ELSE <<>>)
          \o UpdatedPairs(sec_name, a_properties, b_properties, Tail(order))

\* mutant of SectionResults: the additions are all keys of B's section
SectionResults_AllKeysAdded(a_sec, b_ini_) ==
  IF ~HasSection(b_ini_, a_sec.section) THEN {IniCompareNew}
  ELSE LET b_properties == FindSection(b_ini_, a_sec.section).props
           a_keys == Keys(a_sec.props)
           b_keys == Keys(b_properties)
       IN {[added |-> KeyParams(a_sec.section, b_properties, ao),
            deleted |-> KeyParams(a_sec.section, a_sec.props, ro),
            updated |-> UpdatedPairs(a_sec.section, a_sec.props,
                                     b_properties, uo)] :
             ao \in Perms(b_keys),
             ro \in Perms(a_keys \ b_keys),
             uo \in Perms(a_keys \cap b_keys)}

\* mutant of SectionResults: the additions of a shared section are dropped
SectionResults_NoAdditions(a_sec, b_ini_) ==
  IF ~HasSection(b_ini_, a_sec.section) THEN {IniCompareNew}
  ELSE LET b_properties == FindSection(b_ini_, a_sec.section).props
           a_keys == Keys(a_sec.props)
           b_keys == Keys(b_properties)
       IN {[added |-> <<>>,
            deleted |-> KeyParams(a_sec.section, a_sec.props, ro),
            updated |-> UpdatedPairs(a_sec.section, a_sec.props,
                                     b_properties, uo)] :
             ro \in Perms(a_keys \ b_keys),
             uo \in Perms(a_keys \cap b_keys)}

\* mutant of SectionResults: the properties B lost in a shared section are
\* not reported
SectionResults_NoRemovals(a_sec, b_ini_) ==
  IF ~HasSection(b_ini_, a_sec.section) THEN {IniCompareNew}
  ELSE LET b_properties == FindSection(b_ini_, a_sec.section).props
           a_keys == Keys(a_sec.props)
           b_keys == Keys(b_properties)
       IN {[added |-> KeyParams(a_sec.section, b_properties, ao),
            deleted |-> <<>>,
            updated |-> UpdatedPairs(a_sec.section, a_sec.props,
                                     b_properties, uo)] :
             ao \in Perms(b_keys \ a_keys),
             uo \in Perms(a_keys \cap b_keys)}

\* results of comparing one section of A with the section of B of that name
SectionResults(a_sec, b_ini_) ==
  IF ~HasSection(b_ini_, a_sec.section) THEN {IniCompareNew}
  ELSE LET b_properties == FindSection(b_ini_, a_sec.section).props
           a_keys == Keys(a_sec.props)
           b_keys == Keys(b_properties)
       IN {[added |-> KeyParams(a_sec.section, b_properties, ao),
            deleted |-> KeyParams(a_sec.section, a_sec.props, ro),
            updated |-> UpdatedPairs(a_sec.section, a_sec.props,
                                     b_properties, uo)] :
             ao \in Perms(b_keys \ a_keys),
             ro \in Perms(a_keys \ b_keys),
             uo \in Perms(a_keys \cap b_keys)}

Append3(r, s) ==
  [added |-> r.added \o s.added,
   deleted |-> r.deleted \o s.deleted,
   updated |-> r.updated \o s.updated]

\* mutant of SectionBySection: the general section is not compared
RECURSIVE SectionBySection_NamedOnly(_, _, _)
SectionBySection_NamedOnly(a_ini_, b_ini_, i) ==
  IF i > Len(a_ini_) THEN {IniCompareNew}
  ELSE {Append3(h, r) :
          h \in IF a_ini_[i].section = None THEN {IniCompareNew}
                ELSE SectionResults(a_ini_[i], b_ini_),
          r \in SectionBySection_NamedOnly(a_ini_, b_ini_, i + 1)}

\* the section-by-section loop over a_ini from its i-th section on
RECURSIVE SectionBySection(_, _, _)
SectionBySection(a_ini_, b_ini_, i) ==
  IF i > Len(a_ini_) THEN {IniCompareNew}
  ELSE {Append3(h, r) : h \in SectionResults(a_ini_[i], b_ini_),
                        r \in SectionBySection(a_ini_, b_ini_, i + 1)}

\* mutant of ini_compare: every named section of B is taken as added
ini_compare_AllSectionsAdded(a_ini_, b_ini_) ==
  LET a_sections == NamedSections(a_ini_)
      b_sections == NamedSections(b_ini_)
  IN {Append3([added |-> WholeSections(b_ini_, added_sections),
               deleted |-> WholeSections(a_ini_, deleted_sections),
               updated |-> <<>>], r) :
        added_sections \in Perms(b_sections),
        deleted_sections \in Perms(a_sections \ b_sections),
        r \in SectionBySection(a_ini_, b_ini_, 1)}

\* mutant of ini_compare: the sections only A has are not visited
ini_compare_NoDeletedSections(a_ini_, b_ini_) ==
  LET a_sections == NamedSections(a_ini_)
      b_sections == NamedSections(b_ini_)
  IN {Append3([added |-> WholeSections(b_ini_, added_sections),
               deleted |-> <<>>,
               updated |-> <<>>], r) :
        added_sections \in Perms(b_sections \ a_sections),
        r \in SectionBySection(a_ini_, b_ini_, 1)}

\* the results ini_compare may return for two loaded documents, one for
\* every iteration order of its hash sets
ini_compare(a_ini_, b_ini_) ==
  LET a_sections == NamedSections(a_ini_)
      b_sections == NamedSections(b_ini_)
  IN {Append3([added |-> WholeSections(b_ini_, added_sections),
               deleted |-> WholeSections(a_ini_, deleted_sections),
               updated |-> <<>>], r) :
        added_sections \in Perms(b_sections \ a_sections),
        deleted_sections \in Perms(a_sections \ b_sections),
        r \in SectionBySection(a_ini_, b_ini_, 1)}

(***************************************************************************)
(* Input space of the differ: loaded documents with unique section names   *)
(* and unique property names per section.                                  *)
(***************************************************************************)
SectionNames == {<<"s">>, <<"t">>}

PropertyNames == {version, config_file_version}

Values == {<<"1">>, <<"2", "2">>}

\* ordered property lists without a repeated key, with values of a set
PropListsOf(values) ==
  UNION {{[i \in 1..Len(ks) |-> <<ks[i], f[i]>>] : f \in [1..Len(ks) -> values]} :
           ks \in UNION {Perms(K) : K \in SUBSET PropertyNames}}

PropLists == PropListsOf(Values)

SectionLists(names) == UNION {Perms(S) : S \in SUBSET names}

RECURSIVE SumLen(_, _)
SumLen(f, n) == IF n = 0 THEN 0 ELSE Len(f[n]) + SumLen(f, n - 1)

\* documents over the named sections of names, general section first, with
\* at most n properties taken from the property lists of lists
DocumentsOf(names, n, lists) ==
  UNION {{[i \in 1..(Len(o) + 1) |->
             [section |-> IF i = 1 THEN None ELSE Some(o[i - 1]),
              props |-> f[i]]] :
            f \in {g \in [1..(Len(o) + 1) -> lists] :
                     SumLen(g, Len(o) + 1) <= n}} :
           o \in SectionLists(names)}

DocumentsOver(names, n) == DocumentsOf(names, n, PropLists)

Documents == DocumentsOver(SectionNames, MaxProps)

NotLoaded == <<"not loaded">>

NoResult == [status |-> "none"]

Ok(r) == [status |-> "ok", value |-> r]

(***************************************************************************)
(* Text of a file and the loader.                                          *)
(***************************************************************************)
NL == "\n"

\* format!("{} = {}", property, value)
Format(property, value) == property \o <<" ", "=", " ">> \o value

\* mutant of Replace: only the first occurrence is replaced
RECURSIVE Replace_FirstOnly(_, _, _)
Replace_FirstOnly(text, from, to) ==
  IF Len(text) < Len(from) \/ from = <<>> THEN text
  ELSE IF SubSeq(text, 1, Len(from)) = from
       THEN to \o SubSeq(text, Len(from) + 1, Len(text))
       ELSE <<Head(text)>> \o Replace_FirstOnly(Tail(text), from, to)

\* str::replace: every non-overlapping occurrence of from, left to right
RECURSIVE Replace(_, _, _)
Replace(text, from, to) ==
  IF Len(text) < Len(from) \/ from = <<>> THEN text
  ELSE IF SubSeq(text, 1, Len(from)) = from
       THEN to \o Replace(SubSeq(text, Len(from) + 1, Len(text)), from, to)
       ELSE <<Head(text)>> \o Replace(Tail(text), from, to)

\* str::contains
Contains(text, pat) ==
  \E i \in 1..(Len(text) - Len(pat) + 1) :
    SubSeq(text, i, i + Len(pat) - 1) = pat

IndexOf(text, c) == CHOOSE i \in 1..Len(text) :
                      text[i] = c /\ \A j \in 1..(i - 1) : text[j] # c

RECURSIVE TrimStart(_)
TrimStart(t) == IF t # <<>> /\ Head(t) = " " THEN TrimStart(Tail(t)) ELSE t

RECURSIVE TrimEnd(_)
TrimEnd(t) ==
  IF t # <<>> /\ t[Len(t)] = " " THEN TrimEnd(SubSeq(t, 1, Len(t) - 1)) ELSE t

Trim(t) == TrimEnd(TrimStart(t))

\* the lines of a text; a final newline ends the last line
RECURSIVE SplitLines(_)
SplitLines(text) ==
  IF text = <<>> THEN <<>>
  ELSE IF NL \in Range(text)
       THEN LET i == IndexOf(text, NL)
            IN <<SubSeq(text, 1, i - 1)>>
               \o SplitLines(SubSeq(text, i + 1, Len(text)))
       ELSE <<text>>

\* one line of an INI file: blank, comment, [section], key = value, or bad
ParseLine(line) ==
  LET t == Trim(line)
  IN IF t = <<>> THEN [kind |-> "blank"]
     ELSE IF Head(t) \in {";", "#"} THEN [kind |-> "comment"]
     ELSE IF Head(t) = "["
          THEN IF "]" \in Range(t)
               THEN [kind |-> "section",
                     name |-> Trim(SubSeq(t, 2, IndexOf(t, "]") - 1))]
               ELSE [kind |-> "bad"]
     ELSE IF "=" \in Range(t) /\ Head(t) # "="
          THEN [kind |-> "property",
                key |-> Trim(SubSeq(t, 1, IndexOf(t, "=") - 1)),
                value |-> Trim(SubSeq(t, IndexOf(t, "=") + 1, Len(t)))]
          ELSE [kind |-> "bad"]

\* Ini::new(): a document holding the empty general section
IniNew == <<[section |-> None, props |-> <<>>]>>

\* index of the last section named s, 0 if there is none
LastSection(ini, s) ==
  IF HasSection(ini, s)
  THEN CHOOSE i \in 1..Len(ini) :
         ini[i].section = s /\ \A j \in (i + 1)..Len(ini) : ini[j].section # s
  ELSE 0

\* the loader's pass over the lines, cursec being the section in force
RECURSIVE ParseLines(_, _, _)
ParseLines(lines, ini, cursec) ==
  IF lines = <<>> THEN [ok |-> TRUE, ini |-> ini]
  ELSE LET l == ParseLine(Head(lines))
       IN CASE l.kind = "bad" -> [ok |-> FALSE]
            [] l.kind = "section" ->
                 ParseLines(Tail(lines),
                            Append(ini, [section |-> Some(l.name), props |-> <<>>]),
                            Some(l.name))
            [] l.kind = "property" ->
                 LET i == LastSection(ini, cursec)
                 IN ParseLines(Tail(lines),
                               [ini EXCEPT ![i].props = Append(@, <<l.key, l.value>>)],
                               cursec)
            [] OTHER -> ParseLines(Tail(lines), ini, cursec)

\* Ini::load_from_file on the content of a file
Load(text) == ParseLines(SplitLines(text), IniNew, None)

(***************************************************************************)
(* Input space of the patcher: files written one "key = value" or          *)
(* "[section]" per line.                                                   *)
(***************************************************************************)
FileSectionNames == {<<"s">>}

RECURSIVE RenderProps(_)
RenderProps(props) ==
  IF props = <<>> THEN <<>>
  ELSE Format(Head(props)[1], Head(props)[2]) \o <<NL>> \o RenderProps(Tail(props))

RECURSIVE Render(_)
Render(ini) ==
  IF ini = <<>> THEN <<>>
  ELSE (IF Head(ini).section = None THEN <<>>
        ELSE <<"[">> \o Head(ini).section[1] \o <<"]", NL>>)
       \o RenderProps(Head(ini).props) \o Render(Tail(ini))

NumLines(ini) ==
  (Len(ini) - 1) + SumLen([i \in 1..Len(ini) |-> ini[i].props], Len(ini))

Files ==
  {Render(d) : d \in {e \in DocumentsOver(FileSectionNames, MaxLines) :
                        NumLines(e) <= MaxLines}}

\* the error a call returns, with the operation that raised it
Err(at) == [status |-> "err", at |-> at]

\* a path that cannot be opened
NoFile == <<"ENOENT">>

\* a file that does not parse: a line that is neither a section nor "key = value"
BadFile == version \o <<NL>>

\* the same document written "key=value", without the spaces around "="
RECURSIVE RenderTight(_)
RenderTight(ini) ==
  IF ini = <<>> THEN <<>>
  ELSE (IF Head(ini).section = None THEN <<>>
        ELSE <<"[">> \o Head(ini).section[1] \o <<"]", NL>>)
       \o Replace(RenderProps(Head(ini).props), <<" ", "=", " ">>, <<"=">>)
       \o RenderTight(Tail(ini))

TightFiles ==
  {RenderTight(d) : d \in {e \in DocumentsOver(FileSectionNames, MaxLines) :
                             NumLines(e) <= MaxLines}}

\* the files that start with a comment line quoting a value of version
CommentedFiles ==
  {<<";", " ">> \o Format(version, v) \o <<NL>> \o Render(d) :
     v \in Values,
     d \in {e \in DocumentsOver(FileSectionNames, MaxLines) :
              NumLines(e) <= MaxLines - 1}}

\* Ini::load_from_file on a path of the disk
LoadFile(content) == IF content = NoFile THEN [ok |-> FALSE] ELSE Load(content)

\* File::options().write(true).open + write_all: the bytes are written from
\* offset 0 over the content, which is not truncated
WriteOver(content, bytes) ==
  bytes \o SubSeq(content, Len(bytes) + 1, Len(content))

\* the properties that keep their new value
\* mutant of unprotected_properties: version is protected too
unprotected_properties_Both == {config_file_version, version}

unprotected_properties == {config_file_version}

\* mutant of Substitute: the protected properties are reverted too
RECURSIVE Substitute_NoProtection(_, _)
Substitute_NoProtection(text, updated) ==
  IF updated = <<>> THEN text
  ELSE Substitute_NoProtection(
         Replace(text,
                 Format(Head(updated)[2].property, Head(updated)[2].value),
                 Format(Head(updated)[1].property, Head(updated)[1].value)),
         Tail(updated))

\* mutant of Substitute: a literal that is not found is appended as a line
RECURSIVE Substitute_Upsert(_, _)
Substitute_Upsert(text, updated) ==
  IF updated = <<>> THEN text
  ELSE LET updates == Head(updated)
           new == Format(updates[2].property, updates[2].value)
           old == Format(updates[1].property, updates[1].value)
       IN IF updates[2].property \in {config_file_version}
          THEN Substitute_Upsert(text, Tail(updated))
          ELSE IF Contains(text, new)
          THEN Substitute_Upsert(Replace(text, new, old), Tail(updated))
          ELSE Substitute_Upsert(text \o old \o <<NL>>, Tail(updated))

\* the loop of ini_update over comparison.updated
RECURSIVE Substitute(_, _)
Substitute(text, updated) ==
  IF updated = <<>> THEN text
  ELSE LET updates == Head(updated)
       IN IF updates[2].property \in unprotected_properties
          THEN Substitute(text, Tail(updated))
          ELSE Substitute(Replace(text,
                                  Format(updates[2].property, updates[2].value),
                                  Format(updates[1].property, updates[1].value)),
                          Tail(updated))

(***************************************************************************)
(* The two-phase workflow on files: ini_compare(a, b), then                *)
(* ini_update(b, comparison).                                              *)
(***************************************************************************)
Init ==
  /\ disk \in [{"a", "b"} -> Files \cup {NoFile, BadFile}] \cup
              {[a |-> x, b |-> y] :
                 x \in Files, y \in TightFiles \cup CommentedFiles}
  /\ a_ini = NotLoaded
  /\ b_ini = NotLoaded
  /\ comparison = NoResult
  /\ file_stream = <<>>
  /\ pc = "start"
  /\ arg = <<>>
  /\ ret = NoResult
  /\ keepers = <<>>
  /\ stored = <<>>

\* mutant of LoadFiles: B is loaded before A
LoadFiles_BFirst ==
  /\ pc = "start"
  /\ LET a == LoadFile(disk["a"])
         b == LoadFile(disk["b"])
     IN IF ~b.ok
        THEN /\ comparison' = Err("b")
             /\ pc' = "failed"
             /\ UNCHANGED <<a_ini, b_ini>>
        ELSE IF ~a.ok
        THEN /\ comparison' = Err("a")
             /\ pc' = "failed"
             /\ UNCHANGED <<a_ini, b_ini>>
        ELSE /\ a_ini' = a.ini
             /\ b_ini' = b.ini
             /\ pc' = "loaded"
             /\ UNCHANGED comparison
  /\ UNCHANGED <<disk, file_stream, arg, ret>>
  /\ UNCHANGED <<keepers, stored>>

\* ini_compare, the loading of the two files: A first, then B
LoadFiles ==
  /\ pc = "start"
  /\ LET a == LoadFile(disk["a"])
         b == LoadFile(disk["b"])
     IN IF ~a.ok
        THEN /\ comparison' = Err("a")
             /\ pc' = "failed"
             /\ UNCHANGED <<a_ini, b_ini>>
        ELSE IF ~b.ok
        THEN /\ comparison' = Err("b")
             /\ pc' = "failed"
             /\ UNCHANGED <<a_ini, b_ini>>
        ELSE /\ a_ini' = a.ini
             /\ b_ini' = b.ini
             /\ pc' = "loaded"
             /\ UNCHANGED comparison
  /\ UNCHANGED <<disk, file_stream, arg, ret>>
  /\ UNCHANGED <<keepers, stored>>

\* ini_update, File::open and read_to_string of the target file succeed
UpdateRead ==
  /\ pc = "compared"
  /\ file_stream' = disk["b"]
  /\ pc' = "read"
  /\ UNCHANGED <<a_ini, b_ini, comparison, disk, arg, ret>>
  /\ UNCHANGED <<keepers, stored>>

\* ini_update, File::open of the target file fails
UpdateOpenFail ==
  /\ pc = "compared"
  /\ ret' = Err("open")
  /\ pc' = "returned"
  /\ UNCHANGED <<a_ini, b_ini, comparison, disk, file_stream, arg>>
  /\ UNCHANGED <<keepers, stored>>

\* ini_update, read_to_string of the target file fails
UpdateReadFail ==
  /\ pc = "compared"
  /\ ret' = Err("read")
  /\ pc' = "returned"
  /\ UNCHANGED <<a_ini, b_ini, comparison, disk, file_stream, arg>>
  /\ UNCHANGED <<keepers, stored>>

\* the literals of a list of parameters removed from a text
RECURSIVE RemoveAll(_, _)
RemoveAll(text, params) ==
  IF params = <<>> THEN text
  ELSE RemoveAll(Replace(text,
                         Format(Head(params).property, Head(params).value) \o <<NL>>,
                         <<>>),
                 Tail(params))

\* mutant of Patched: the deleted parameters are removed from the text
Patched_AppliesDeleted(text, comparison_) ==
  RemoveAll(Substitute(text, comparison_.updated), comparison_.deleted)

\* the text ini_update computes from the text read and the comparison
Patched(text, comparison_) == Substitute(text, comparison_.updated)

\* ini_update, the substitutions and the writing of the target file
UpdateWrite ==
  /\ pc = "read"
  /\ file_stream' = Patched(file_stream, comparison.value)
  /\ disk' = [disk EXCEPT !["b"] = WriteOver(@, file_stream')]
  /\ pc' = "done"
  /\ ret' = [status |-> "ok"]
  /\ UNCHANGED <<a_ini, b_ini, comparison, arg>>
  /\ UNCHANGED <<keepers, stored>>

\* mutant of UpdateReopenFail: the file was truncated before the failure
UpdateReopenFail_Truncated ==
  /\ pc = "read"
  /\ file_stream' = Patched(file_stream, comparison.value)
  /\ disk' = [disk EXCEPT !["b"] = <<>>]
  /\ ret' = Err("reopen")
  /\ pc' = "returned"
  /\ UNCHANGED <<a_ini, b_ini, comparison, arg>>
  /\ UNCHANGED <<keepers, stored>>

\* ini_update, the substitutions, then reopening the file for writing fails
UpdateReopenFail ==
  /\ pc = "read"
  /\ file_stream' = Patched(file_stream, comparison.value)
  /\ ret' = Err("reopen")
  /\ pc' = "returned"
  /\ UNCHANGED <<a_ini, b_ini, comparison, disk, arg>>
  /\ UNCHANGED <<keepers, stored>>

\* ini_update, write_all fails after it wrote n bytes of the text
UpdateWriteFail ==
  /\ pc = "read"
  /\ file_stream' = Patched(file_stream, comparison.value)
  /\ \E n \in 0..(Len(file_stream') - 1) :
       disk' = [disk EXCEPT !["b"] = WriteOver(@, SubSeq(file_stream', 1, n))]
  /\ ret' = Err("write")
  /\ pc' = "returned"
  /\ UNCHANGED <<a_ini, b_ini, comparison, arg>>
  /\ UNCHANGED <<keepers, stored>>

(***************************************************************************)
(* The differ on loaded documents.                                         *)
(***************************************************************************)
InitCompare ==
  /\ a_ini \in Documents
  /\ b_ini \in Documents
  /\ comparison = NoResult
  /\ disk = <<>>
  /\ file_stream = <<>>
  /\ pc = "loaded"
  /\ arg = <<>>
  /\ ret = NoResult
  /\ keepers = <<>>
  /\ stored = <<>>

Compare ==
  /\ pc = "loaded"
  /\ \E r \in ini_compare(a_ini, b_ini) : comparison' = Ok(r)
  /\ pc' = "compared"
  /\ UNCHANGED <<a_ini, b_ini, disk, file_stream, arg, ret>>
  /\ UNCHANGED <<keepers, stored>>

NextCompare == Compare

SpecCompare == InitCompare /\ [][NextCompare]_vars

(***************************************************************************)
(* The differ on loaded documents whose values may be the empty string.    *)
(***************************************************************************)
EmptyValues == {<<>>, <<"1">>}

InitEmpty ==
  /\ a_ini \in DocumentsOf(SectionNames, MaxProps, PropListsOf(EmptyValues))
  /\ b_ini \in DocumentsOf(SectionNames, MaxProps, PropListsOf(EmptyValues))
  /\ comparison = NoResult
  /\ disk = <<>>
  /\ file_stream = <<>>
  /\ pc = "loaded"
  /\ arg = <<>>
  /\ ret = NoResult
  /\ keepers = <<>>
  /\ stored = <<>>

NextEmpty == Compare

SpecEmpty == InitEmpty /\ [][NextEmpty]_vars

Next ==
  \/ LoadFiles
  \/ Compare
  \/ UpdateRead
  \/ UpdateOpenFail
  \/ UpdateReadFail
  \/ UpdateWrite
  \/ UpdateReopenFail
  \/ UpdateWriteFail

Spec == Init /\ [][Next]_vars

(***************************************************************************)
(* ini_update while another process writes the target file.                *)
(***************************************************************************)
MaxRaceLines == 2

MaxExternalLines == 1

\* the files ini_compare and ini_update are given
RaceFiles ==
  {Render(d) : d \in {e \in DocumentsOver(FileSectionNames, MaxLines) :
                        NumLines(e) <= MaxRaceLines}}

\* the texts the other process writes, replacing the file
ExternalTexts ==
  {Render(d) : d \in {e \in DocumentsOver(FileSectionNames, MaxLines) :
                        NumLines(e) <= MaxExternalLines}}

InitRace ==
  /\ disk \in [{"a", "b"} -> RaceFiles]
  /\ a_ini = NotLoaded
  /\ b_ini = NotLoaded
  /\ comparison = NoResult
  /\ file_stream = <<>>
  /\ pc = "start"
  /\ arg = <<>>
  /\ ret = NoResult
  /\ keepers = <<>>
  /\ stored = <<>>

\* another process replaces the target file after ini_update has read it
\* and before ini_update reopens it: no lock is held in between
ExternalWrite ==
  /\ pc = "read"
  /\ arg = <<>>
  /\ \E text \in ExternalTexts :
       /\ text # disk["b"]
       /\ disk' = [disk EXCEPT !["b"] = text]
       /\ arg' = [external |-> text]
  /\ UNCHANGED <<a_ini, b_ini, comparison, file_stream, pc, ret>>
  /\ UNCHANGED <<keepers, stored>>

NextRace == Next \/ ExternalWrite

SpecRace == InitRace /\ [][NextRace]_vars

(***************************************************************************)
(* ini_update on files whose literals contain one another, called once or  *)
(* twice with the same comparison.                                         *)
(***************************************************************************)
\* a property name that the name version ends with
short_name == <<"n">>

OverlapNames == {version, short_name}

\* values of which one starts with another
OverlapValues == {<<"1">>, <<"1", "2">>, <<"2", "2">>}

OverlapLists ==
  UNION {{[i \in 1..Len(ks) |-> <<ks[i], f[i]>>] :
            f \in [1..Len(ks) -> OverlapValues]} :
           ks \in UNION {Perms(K) : K \in SUBSET OverlapNames}}

\* files without sections
OverlapFiles == {Render(d) : d \in DocumentsOf({}, MaxProps, OverlapLists)}

InitOverlap ==
  /\ disk \in [{"a", "b"} -> OverlapFiles]
  /\ a_ini = NotLoaded
  /\ b_ini = NotLoaded
  /\ comparison = NoResult
  /\ file_stream = <<>>
  /\ pc = "start"
  /\ arg = <<>>
  /\ ret = NoResult
  /\ keepers = <<>>
  /\ stored = <<>>

\* the caller calls ini_update again with the same comparison; arg keeps
\* what the first call left in the file
UpdateAgain ==
  /\ pc = "done"
  /\ arg = <<>>
  /\ arg' = [once |-> disk["b"]]
  /\ pc' = "compared"
  /\ UNCHANGED <<a_ini, b_ini, comparison, disk, file_stream, ret>>
  /\ UNCHANGED <<keepers, stored>>

NextOverlap == Next \/ UpdateAgain

SpecOverlap == InitOverlap /\ [][NextOverlap]_vars

(***************************************************************************)
(* Bit utilities (src/utils-box-bits/src/bits.rs).                         *)
(***************************************************************************)
RECURSIVE Pow2(_)
Pow2(n) == IF n = 0 THEN 1 ELSE 2 * Pow2(n - 1)

Zeros(n) == [i \in 1..n |-> 0]

Reverse(v) == [i \in 1..Len(v) |-> v[Len(v) + 1 - i]]

Panic == [status |-> "panic"]

\* the while loop of bits_to_vec: least significant bit first
RECURSIVE ShiftOut(_, _, _, _)
ShiftOut(in_bits, idx, out_len, output) ==
  IF in_bits > 0 /\ idx < out_len
  THEN ShiftOut(in_bits \div 2, idx + 1, out_len, Append(output, in_bits % 2))
  ELSE [idx |-> idx, output |-> output]

\* mutant of bits_to_vec: the output is not filled up to out_len
bits_to_vec_NoFill(bits, out_len) ==
  Reverse(ShiftOut(bits, 0, out_len, <<>>).output)

bits_to_vec(bits, out_len) ==
  LET l == ShiftOut(bits, 0, out_len, <<>>)
  IN Reverse(l.output \o Zeros(out_len - l.idx))

\* vec[i..i + 4].iter().fold(0b0, |acc, &x| (acc << 1) | x) on u8; the
\* elements are 0 or 1, so | adds
RECURSIVE Fold(_, _)
Fold(acc, bits) ==
  IF bits = <<>> THEN acc
  ELSE Fold(((acc * 2) % 256) + Head(bits), Tail(bits))

\* the character of a code, for the codes of '0'..'9' and 'A'..'F'
AsChar(code) ==
  IF code \in 48..57
  THEN <<"0", "1", "2", "3", "4", "5", "6", "7", "8", "9">>[code - 47]
  ELSE <<"A", "B", "C", "D", "E", "F">>[code - 64]

\* the loop of bit_vec_to_hex_string from (0-based) index i on; slicing
\* past the end of the vector panics
RECURSIVE HexLoop(_, _, _)
HexLoop(vec, i, hex_string) ==
  IF i >= Len(vec) THEN [status |-> "ok", value |-> hex_string]
  ELSE IF i + 4 > Len(vec) THEN Panic
  ELSE LET bits == Fold(0, SubSeq(vec, i + 1, i + 4))
           char == AsChar(IF bits <= 9 THEN bits + 48 ELSE bits + 55)
       IN HexLoop(vec, i + 4, Append(hex_string, char))

bit_vec_to_hex_string(vec) ==
  LET mod_vec == Len(vec) % 4
  IN HexLoop(IF mod_vec # 0 THEN vec \o Zeros(mod_vec) ELSE vec, 0, <<>>)

\* the loop of bit_vec_to_byte_vec from (0-based) index i on; slicing past
\* the end of the vector panics
RECURSIVE ByteLoop(_, _, _)
ByteLoop(vec, i, res) ==
  IF i >= Len(vec) THEN [status |-> "ok", value |-> res]
  ELSE IF i + 8 > Len(vec) THEN Panic
  ELSE ByteLoop(vec, i + 8, Append(res, Fold(0, SubSeq(vec, i + 1, i + 8))))

bit_vec_to_byte_vec(vec) ==
  LET mod_vec == Len(vec) % 8
  IN ByteLoop(IF mod_vec # 0 THEN vec \o Zeros(mod_vec) ELSE vec, 0, <<>>)

\* the bit vector of the tests of bits.rs
TestVector == <<1, 1, 0, 1, 0, 1, 0, 0, 0, 1, 0, 0, 1, 1, 1, 0, 1, 0, 1, 1, 0>>

BitVectors ==
  UNION {[1..n -> {0, 1}] : n \in 0..MaxVecLen} \cup {TestVector}

\* the vectors given to bit_vec_to_byte_vec: the short ones and prefixes of
\* the test vector of one and two whole bytes and of a byte and a half
ByteVectors ==
  BitVectors \cup {SubSeq(TestVector, 1, n) : n \in {8, 12, 16}}

InitBits ==
  /\ arg \in {[fn |-> "bit_vec_to_hex_string", vec |-> v] : v \in BitVectors}
        \cup {[fn |-> "bit_vec_to_byte_vec", vec |-> v] : v \in ByteVectors}
        \cup {[fn |-> "bits_to_vec", bits |-> b, out_len |-> n] :
                b \in 0..(Pow2(MaxBitsWidth) - 1), n \in 0..MaxOutLen}
  /\ ret = NoResult
  /\ pc = "call"
  /\ a_ini = NotLoaded
  /\ b_ini = NotLoaded
  /\ comparison = NoResult
  /\ disk = <<>>
  /\ file_stream = <<>>
  /\ keepers = <<>>
  /\ stored = <<>>

CallBitsToVec ==
  /\ pc = "call"
  /\ arg.fn = "bits_to_vec"
  /\ ret' = Ok(bits_to_vec(arg.bits, arg.out_len))
  /\ pc' = "returned"
  /\ UNCHANGED <<a_ini, b_ini, comparison, disk, file_stream, arg>>
  /\ UNCHANGED <<keepers, stored>>

CallBitVecToHexString ==
  /\ pc = "call"
  /\ arg.fn = "bit_vec_to_hex_string"
  /\ ret' = bit_vec_to_hex_string(arg.vec)
  /\ pc' = "returned"
  /\ UNCHANGED <<a_ini, b_ini, comparison, disk, file_stream, arg>>
  /\ UNCHANGED <<keepers, stored>>

CallBitVecToByteVec ==
  /\ pc = "call"
  /\ arg.fn = "bit_vec_to_byte_vec"
  /\ ret' = bit_vec_to_byte_vec(arg.vec)
  /\ pc' = "returned"
  /\ UNCHANGED <<a_ini, b_ini, comparison, disk, file_stream, arg>>
  /\ UNCHANGED <<keepers, stored>>

NextBits == CallBitsToVec \/ CallBitVecToHexString \/ CallBitVecToByteVec

SpecBits == InitBits /\ [][NextBits]_vars

(***************************************************************************)
(* Stopwatch statistics (src/src/stopwatch.rs): StopWatchStats keeps, for   *)
(* every lap name, the id given at the first recording and the total of    *)
(* the durations; a TimeKeeper is a StopWatch with its StopWatchStats.     *)
(* Lap names are numbers, durations are counts of a time unit.             *)
(***************************************************************************)
\* largest number of lap calls in a run
MaxCalls == 3
\* largest duration a lap measures
MaxDuration == 2
\* number of laps of the long-running keeper: one below the largest u8
FilledLaps == 254

Durations == 0..MaxDuration

\* the lap names passed to lap: the first name and two names the
\* long-running keeper has not recorded
LapNames == {1, FilledLaps + 1, FilledLaps + 2}

Min(x, y) == IF x <= y THEN x ELSE y

\* StopWatchStats::init
StopWatchStats_init == [lap_totals |-> <<>>, max_id |-> 0]

\* the statistics after store_lap(k, 1) for the names k = 1..n in turn
Filled(n) == [lap_totals |-> [k \in 1..n |-> <<k, 1>>], max_id |-> n]

\* StopWatchStats::store_lap: the outcomes of a call, the statistics it
\* leaves and what it returns.  max_id is a u8: max_id += 1 at 255 panics
\* when the build checks overflow and wraps to 0 when it does not.
store_lap(self, lap, time) ==
  IF lap \in DOMAIN self.lap_totals
  THEN LET total == self.lap_totals[lap][2]
       IN {[stats |-> [self EXCEPT !.lap_totals[lap] = <<@[1], time + total>>],
            ret |-> Ok(time + total)]}
  ELSE LET max_id == (self.max_id + 1) % 256
           stored_ == [stats |-> [lap_totals |-> (lap :> <<max_id, time>>) @@ self.lap_totals,
                                  max_id |-> max_id],
                       ret |-> Ok(time)]
       IN IF self.max_id + 1 > 255
          THEN {[stats |-> self, ret |-> Panic], stored_}
          ELSE {stored_}

\* mutant of merge: a lap both keepers have keeps the receiver's total
merge_KeepsOwn(self, time_keeper) ==
  [self EXCEPT !.lap_totals =
     [lap \in DOMAIN self.lap_totals \cup DOMAIN time_keeper.lap_totals |->
        IF lap \in DOMAIN self.lap_totals THEN self.lap_totals[lap]
        ELSE time_keeper.lap_totals[lap]]]

\* TimeKeeper::merge: every lap of time_keeper is inserted into self, with
\* the smaller id and the sum of the totals when self has the lap, as it is
\* otherwise; max_id of self is left alone
merge(self, time_keeper) ==
  [self EXCEPT !.lap_totals =
     [lap \in DOMAIN self.lap_totals \cup DOMAIN time_keeper.lap_totals |->
        IF lap \notin DOMAIN time_keeper.lap_totals THEN self.lap_totals[lap]
        ELSE IF lap \in DOMAIN self.lap_totals
        THEN <<Min(self.lap_totals[lap][1], time_keeper.lap_totals[lap][1]),
               self.lap_totals[lap][2] + time_keeper.lap_totals[lap][2]>>
        ELSE time_keeper.lap_totals[lap]]]

\* the durations passed to lap of a keeper under a lap name
PassedIn(passed, k, lap) ==
  IF lap \in DOMAIN passed[k] THEN passed[k][lap] ELSE 0

Passed(k, lap) == PassedIn(stored.passed, k, lap)

\* two keepers s and t, s new or after FilledLaps laps of duration 1
InitStopwatch ==
  /\ \E n \in {0, FilledLaps} :
       /\ keepers = [s |-> Filled(n), t |-> StopWatchStats_init]
       /\ stored = [passed |-> [s |-> [k \in 1..n |-> 1], t |-> <<>>],
                    calls |-> 0]
  /\ pc = "running"
  /\ arg = <<>>
  /\ ret = NoResult
  /\ a_ini = NotLoaded
  /\ b_ini = NotLoaded
  /\ comparison = NoResult
  /\ disk = <<>>
  /\ file_stream = <<>>

\* TimeKeeper::lap on one of the keepers: store_lap with the time the
\* stopwatch measured
Lap ==
  /\ pc = "running"
  /\ stored.calls < MaxCalls
  /\ \E k \in DOMAIN keepers, lap \in LapNames, time \in Durations :
       \E o \in store_lap(keepers[k], lap, time) :
         /\ keepers' = [keepers EXCEPT ![k] = o.stats]
         /\ ret' = o.ret
         /\ arg' = [fn |-> "lap", keeper |-> k, lap |-> lap, time |-> time]
         /\ stored' = [passed |-> [stored.passed EXCEPT ![k] =
                                     (lap :> (Passed(k, lap) + time)) @@ @],
                       calls |-> stored.calls + 1]
         /\ pc' = IF o.ret = Panic THEN "panicked" ELSE "running"
  /\ UNCHANGED <<a_ini, b_ini, comparison, disk, file_stream>>

\* s.merge(t): t is moved into the call
Merge ==
  /\ pc = "running"
  /\ "t" \in DOMAIN keepers
  /\ keepers' = [s |-> merge(keepers["s"], keepers["t"])]
  /\ arg' = [fn |-> "merge"]
  /\ ret' = NoResult
  /\ UNCHANGED <<a_ini, b_ini, comparison, disk, file_stream, pc, stored>>

NextStopwatch == Lap \/ Merge

SpecStopwatch == InitStopwatch /\ [][NextStopwatch]_vars

(***************************************************************************)
(* Vocabulary of the properties of the differ.                             *)
(***************************************************************************)
\* the (section, property) pairs of a document
PairsOf(ini) ==
  UNION {{<<ini[i].section, k>> : k \in Keys(ini[i].props)} : i \in 1..Len(ini)}

HasPair(ini, sp) == sp \in PairsOf(ini)

ValueOf(ini, sp) == PropGet(FindSection(ini, sp[1]).props, sp[2])

ParamOf(ini, sp) == IniParameter(sp[1], sp[2], ValueOf(ini, sp))

\* number of entries of a list of parameters that are about a pair
CountIn(list, sp) ==
  Cardinality({i \in 1..Len(list) :
                 list[i].section = sp[1] /\ list[i].property = sp[2]})

\* number of entries of a list of (old, new) pairs that are about a pair
CountInUpdated(list, sp) ==
  Cardinality({i \in 1..Len(list) :
                 \/ list[i][1].section = sp[1] /\ list[i][1].property = sp[2]
                 \/ list[i][2].section = sp[1] /\ list[i][2].property = sp[2]})

Compared == pc = "compared" /\ comparison.status = "ok"

Result == comparison.value

\* C5 (P2, partition): every (section, property) pair of A or B is reported
\* exactly once, in exactly one of added, deleted and updated, when it is
\* missing from one document or its values differ, and in none of the
\* three lists when both documents hold it with the same value.
C5_Partition ==
  Compared =>
    \A sp \in PairsOf(a_ini) \cup PairsOf(b_ini) :
      LET n == CountIn(Result.added, sp) + CountIn(Result.deleted, sp)
               + CountInUpdated(Result.updated, sp)
          same == /\ HasPair(a_ini, sp)
                  /\ HasPair(b_ini, sp)
                  /\ ValueOf(a_ini, sp) = ValueOf(b_ini, sp)
      IN n = (IF same THEN 0 ELSE 1)

\* a comparison that reports an addition, a deletion and an update at once
C5_Witness ==
  /\ Compared
  /\ Len(Result.added) > 0
  /\ Len(Result.deleted) > 0
  /\ Len(Result.updated) > 0

\* C6 (P4, value-only updates): both members of every pair of updated have
\* the same section and property and different values, the first member
\* holding A's value and the second B's value of that property.
C6_ValueOnlyUpdates ==
  Compared =>
    \A i \in 1..Len(Result.updated) :
      LET old == Result.updated[i][1]
          new == Result.updated[i][2]
          sp == <<old.section, old.property>>
      IN /\ old.section = new.section
         /\ old.property = new.property
         /\ old.value # new.value
         /\ HasPair(a_ini, sp) /\ old.value = ValueOf(a_ini, sp)
         /\ HasPair(b_ini, sp) /\ new.value = ValueOf(b_ini, sp)

\* a comparison with two updated pairs
C6_Witness == Compared /\ Len(Result.updated) = 2

\* C7 (completeness of updated): a property that both documents hold in a
\* section is in updated as (A-parameter, B-parameter) when its values
\* differ, and is in none of the lists when its values are equal.
C7_UpdatedComplete ==
  Compared =>
    \A sp \in PairsOf(a_ini) \cap PairsOf(b_ini) :
      IF ValueOf(a_ini, sp) # ValueOf(b_ini, sp)
      THEN <<ParamOf(a_ini, sp), ParamOf(b_ini, sp)>> \in Range(Result.updated)
      ELSE /\ CountIn(Result.added, sp) = 0
           /\ CountIn(Result.deleted, sp) = 0
           /\ CountInUpdated(Result.updated, sp) = 0

\* a shared section with one changed and one unchanged property
C7_Witness ==
  /\ Compared
  /\ \E sp \in PairsOf(a_ini) \cap PairsOf(b_ini), sq \in PairsOf(a_ini) \cap PairsOf(b_ini) :
       /\ sp[1] = sq[1]
       /\ ValueOf(a_ini, sp) # ValueOf(b_ini, sp)
       /\ ValueOf(a_ini, sq) = ValueOf(b_ini, sq)

SectionsOf(ini) == {ini[i].section : i \in 1..Len(ini)}

\* C8 (P3, section closure for added): every property of a section that
\* only B has is in added with that section and B's value, and no property
\* of that section is in updated or deleted.
C8_AddedSectionClosure ==
  Compared =>
    \A s \in SectionsOf(b_ini) \ SectionsOf(a_ini) :
      \A sp \in {q \in PairsOf(b_ini) : q[1] = s} :
        /\ ParamOf(b_ini, sp) \in Range(Result.added)
        /\ CountIn(Result.deleted, sp) = 0
        /\ CountInUpdated(Result.updated, sp) = 0

\* a section with two properties that only B has
C8_Witness ==
  /\ Compared
  /\ \E s \in SectionsOf(b_ini) \ SectionsOf(a_ini) :
       Cardinality({q \in PairsOf(b_ini) : q[1] = s}) = 2

\* C9 (deleted is the baseline-only properties): deleted holds (S, p, v)
\* if and only if A's section S has property p with value v and B has no
\* property p in a section S.
C9_DeletedExact ==
  Compared =>
    Range(Result.deleted) =
      {ParamOf(a_ini, sp) : sp \in PairsOf(a_ini) \ PairsOf(b_ini)}

\* a property of a section only A has and a property removed from a
\* section both have are deleted together
C9_Witness ==
  /\ Compared
  /\ \E sp \in PairsOf(a_ini) \ PairsOf(b_ini), sq \in PairsOf(a_ini) \ PairsOf(b_ini) :
       /\ sp[1] \notin SectionsOf(b_ini)
       /\ sq[1] \in SectionsOf(b_ini)

\* C10 (additions inside a shared section): for a section both documents
\* have, the entries of added with that section are exactly (S, p, B's
\* value) for the properties p of B's section that A's section lacks.
C10_AddedInSharedSection ==
  Compared =>
    \A s \in SectionsOf(a_ini) \cap SectionsOf(b_ini) :
      {x \in Range(Result.added) : x.section = s} =
        {ParamOf(b_ini, sp) :
           sp \in {q \in PairsOf(b_ini) \ PairsOf(a_ini) : q[1] = s}}

\* a shared named section gains a property and keeps another
C10_Witness ==
  /\ Compared
  /\ \E s \in SectionsOf(a_ini) \cap SectionsOf(b_ini) :
       /\ s # None
       /\ \E q \in PairsOf(b_ini) \ PairsOf(a_ini) : q[1] = s
       /\ \E q \in PairsOf(b_ini) \cap PairsOf(a_ini) : q[1] = s

\* C11 (P1): comparing a document with itself gives empty added, deleted
\* and updated.
C11_SelfCompareEmpty ==
  (Compared /\ a_ini = b_ini) =>
    /\ Result.added = <<>>
    /\ Result.deleted = <<>>
    /\ Result.updated = <<>>

\* a document with a global property and a property of a named section
\* was compared with itself
C11_Witness ==
  /\ Compared
  /\ a_ini = b_ini
  /\ \E sp \in PairsOf(a_ini), sq \in PairsOf(a_ini) : sp[1] = None /\ sq[1] # None

\* C12 (global section): a global property only B has is in added, one
\* only A has is in deleted, one both have with different values is in
\* updated, each with section None and reported once, also when one of the
\* documents has no global property at all.
C12_GlobalSection ==
  Compared =>
    \A sp \in {q \in PairsOf(a_ini) \cup PairsOf(b_ini) : q[1] = None} :
      /\ (~HasPair(a_ini, sp)) =>
            /\ ParamOf(b_ini, sp) \in Range(Result.added)
            /\ CountIn(Result.added, sp) = 1
      /\ (~HasPair(b_ini, sp)) =>
            /\ ParamOf(a_ini, sp) \in Range(Result.deleted)
            /\ CountIn(Result.deleted, sp) = 1
      /\ (HasPair(a_ini, sp) /\ HasPair(b_ini, sp)
          /\ ValueOf(a_ini, sp) # ValueOf(b_ini, sp)) =>
            /\ <<ParamOf(a_ini, sp), ParamOf(b_ini, sp)>> \in Range(Result.updated)
            /\ CountInUpdated(Result.updated, sp) = 1

\* only B has global properties, and they were reported as added
C12_Witness ==
  /\ Compared
  /\ {q \in PairsOf(a_ini) : q[1] = None} = {}
  /\ Cardinality({q \in PairsOf(b_ini) : q[1] = None}) = 2
  /\ \A i \in 1..Len(Result.added) : Result.added[i].section = None
  /\ Len(Result.added) = 2

\* C13 (empty values): a property whose value is the empty string is
\* reported like any other: in added or deleted with value "" when one
\* document lacks it, in updated when the other document has another
\* value for it, and nowhere when both have it with value "".
C13_EmptyValueIsAValue ==
  Compared =>
    \A sp \in PairsOf(a_ini) \cup PairsOf(b_ini) :
      /\ (HasPair(b_ini, sp) /\ ~HasPair(a_ini, sp) /\ ValueOf(b_ini, sp) = <<>>)
           => IniParameter(sp[1], sp[2], <<>>) \in Range(Result.added)
      /\ (HasPair(a_ini, sp) /\ ~HasPair(b_ini, sp) /\ ValueOf(a_ini, sp) = <<>>)
           => IniParameter(sp[1], sp[2], <<>>) \in Range(Result.deleted)
      /\ (HasPair(a_ini, sp) /\ HasPair(b_ini, sp)) =>
           LET va == ValueOf(a_ini, sp)
               vb == ValueOf(b_ini, sp)
           IN /\ ((va = <<>>) # (vb = <<>>)) =>
                   <<IniParameter(sp[1], sp[2], va),
                     IniParameter(sp[1], sp[2], vb)>> \in Range(Result.updated)
              /\ (va = <<>> /\ vb = <<>>) =>
                   /\ CountIn(Result.added, sp) = 0
                   /\ CountIn(Result.deleted, sp) = 0
                   /\ CountInUpdated(Result.updated, sp) = 0

\* an empty value was added and another property went from "" to a
\* non-empty value
C13_Witness ==
  /\ Compared
  /\ \E i \in 1..Len(Result.added) : Result.added[i].value = <<>>
  /\ \E i \in 1..Len(Result.updated) :
       Result.updated[i][1].value = <<>> /\ Result.updated[i][2].value # <<>>

\* C26 (antisymmetry): comparing B with A instead of A with B exchanges
\* added and deleted and swaps the two members of every pair of updated,
\* the three lists taken as sets.
C26_Antisymmetric ==
  Compared =>
    \A back \in ini_compare(b_ini, a_ini) :
      /\ Range(back.added) = Range(Result.deleted)
      /\ Range(back.deleted) = Range(Result.added)
      /\ Range(back.updated) =
           {<<Result.updated[i][2], Result.updated[i][1]>> :
              i \in 1..Len(Result.updated)}

\* the comparison reports a section only B has, a property a shared
\* section lost, and an update
C26_Witness ==
  /\ Compared
  /\ \E i \in 1..Len(Result.added) :
       Result.added[i].section \notin SectionsOf(a_ini)
  /\ \E i \in 1..Len(Result.deleted) :
       Result.deleted[i].section \in SectionsOf(b_ini)
  /\ Len(Result.updated) > 0

(***************************************************************************)
(* Properties of the patcher.                                              *)
(***************************************************************************)
Done == pc = "done"

\* the step of ini_update that substitutes and writes
Patching == pc = "read" /\ pc' = "done"

Updated == comparison.value.updated

OldLiteral(pair) == Format(pair[1].property, pair[1].value)

NewLiteral(pair) == Format(pair[2].property, pair[2].value)

Protected(pair) == pair[2].property \in {config_file_version}

\* number of places of a text where a literal occurs
Occurrences(text, pat) ==
  Cardinality({i \in 1..(Len(text) - Len(pat) + 1) :
                 SubSeq(text, i, i + Len(pat) - 1) = pat})

\* C1 (end-to-end reversion): after ini_compare(A, B) and ini_update(B,
\* result) the B file parses again, to the properties of B, where every
\* property that A and B hold with different values has A's value unless it
\* is protected, and every other property has B's value.
C1_EndToEndReversion ==
  Done =>
    LET r == Load(disk["b"])
    IN /\ r.ok
       /\ PairsOf(r.ini) = PairsOf(b_ini)
       /\ \A sp \in PairsOf(b_ini) :
            ValueOf(r.ini, sp) =
              IF /\ HasPair(a_ini, sp)
                 /\ ValueOf(a_ini, sp) # ValueOf(b_ini, sp)
                 /\ sp[2] # config_file_version
              THEN ValueOf(a_ini, sp)
              ELSE ValueOf(b_ini, sp)

\* C2 (P6, reversion): for every pair of updated that is not protected and
\* whose new literal occurs exactly once in the text read, the text after
\* the substitutions contains the old literal and not the new one.
C2_Reversion ==
  [][Patching =>
       \A i \in 1..Len(Updated) :
         (~Protected(Updated[i])
          /\ Occurrences(file_stream, NewLiteral(Updated[i])) = 1)
         => /\ Contains(file_stream', OldLiteral(Updated[i]))
            /\ ~Contains(file_stream', NewLiteral(Updated[i]))]_vars

\* C3 (P5, protected passthrough): for every pair of updated that is
\* protected, the text after the substitutions still contains the new
\* literal that the text read contained.
C3_ProtectedPassthrough ==
  [][Patching =>
       \A i \in 1..Len(Updated) :
         (Protected(Updated[i])
          /\ Contains(file_stream, NewLiteral(Updated[i])))
         => Contains(file_stream', NewLiteral(Updated[i]))]_vars

\* C4 (overwrite): after ini_update the content of the target file is
\* exactly the substituted text.
C4_FileIsSubstitutedText == Done => disk["b"] = file_stream

\* C14 (scenario D generalised): when every pair of updated is protected,
\* or updated is empty, a successful ini_update leaves the text of the
\* target file as it was.
C14_AllProtectedUnchanged ==
  [][(Patching /\ \A i \in 1..Len(Updated) : Protected(Updated[i]))
       => /\ file_stream' = file_stream
          /\ disk'["b"] = disk["b"]]_vars

\* ini_update succeeded on a comparison whose only updated pair is protected
C14_Witness ==
  /\ Done
  /\ Len(Updated) = 1
  /\ Protected(Updated[1])
  /\ Contains(disk["b"], NewLiteral(Updated[1]))

\* comparisons with the updated list of c and other added and deleted lists
AltComparisons(c) ==
  {[updated |-> c.updated, added |-> x, deleted |-> y] :
     x \in {<<>>, c.added, c.deleted, c.added \o c.deleted},
     y \in {<<>>, c.added, c.deleted, c.added \o c.deleted}}

\* C15 (added and deleted are ignored): the text ini_update writes is the
\* same for every comparison with the same updated list, whatever its added
\* and deleted lists; the text written parses, still holds every added
\* property and holds no deleted property.
C15_AddedDeletedIgnored ==
  [][Patching =>
       /\ \A c \in AltComparisons(comparison.value) :
            Patched(file_stream, c) = file_stream'
       /\ LET r == Load(file_stream')
          IN /\ r.ok
             /\ \A i \in 1..Len(comparison.value.added) :
                  <<comparison.value.added[i].section,
                    comparison.value.added[i].property>> \in PairsOf(r.ini)
             /\ \A i \in 1..Len(comparison.value.deleted) :
                  <<comparison.value.deleted[i].section,
                    comparison.value.deleted[i].property>> \notin PairsOf(r.ini)]_vars

\* ini_update reverted a value in a file that also has an added property,
\* with a comparison that also has a deleted property
C15_Witness ==
  /\ Done
  /\ Len(comparison.value.added) > 0
  /\ Len(comparison.value.deleted) > 0
  /\ \E i \in 1..Len(Updated) :
       ~Protected(Updated[i]) /\ Contains(file_stream, OldLiteral(Updated[i]))

\* the text before the i-th pair of updated is applied
TextBefore(text, i) == Substitute(text, SubSeq(Updated, 1, i - 1))

\* C16 (silent no-op on format mismatch): a pair of updated whose new
\* literal does not occur in the text when its turn comes changes nothing
\* in the text; ini_update still succeeds, and it returns an error only
\* from opening, reading, reopening or writing the target file.
C16_SilentNoOp ==
  [][/\ Patching =>
          /\ ret'.status = "ok"
          /\ \A i \in 1..Len(Updated) :
               ~Contains(TextBefore(file_stream, i), NewLiteral(Updated[i]))
                 => TextBefore(file_stream, i + 1) = TextBefore(file_stream, i)
          /\ (\A i \in 1..Len(Updated) :
                ~Contains(file_stream, NewLiteral(Updated[i])))
               => file_stream' = file_stream /\ disk' = disk
     /\ (ret'.status = "err" /\ ret.status # "err") =>
          \/ pc = "compared" /\ ret'.at \in {"open", "read"}
          \/ pc = "read" /\ ret'.at \in {"reopen", "write"}]_vars

\* ini_update succeeded on a file written "key=value" whose changed
\* property is not protected, and the file is as it was
C16_Witness ==
  /\ Done
  /\ ret.status = "ok"
  /\ \E i \in 1..Len(Updated) :
       /\ ~Protected(Updated[i])
       /\ ~Contains(disk["b"], NewLiteral(Updated[i]))
       /\ ~Contains(disk["b"], OldLiteral(Updated[i]))
  /\ disk["b"] = RenderTight(b_ini)

\* C17 (failure before the write): when ini_update fails in opening or
\* reading the target file, or in reopening it for writing, it returns the
\* error and the content of the target file is unchanged.
C17_FailureLeavesFile ==
  [][(pc \in {"compared", "read"} /\ pc' = "returned"
      /\ ret'.at \in {"open", "read", "reopen"})
       => ret'.status = "err" /\ disk' = disk]_vars

\* reopening failed after the substitutions changed the text in memory
C17_Witness ==
  /\ pc = "returned"
  /\ ret = Err("reopen")
  /\ file_stream # disk["b"]

\* C18 (errors of ini_compare): ini_compare returns an error exactly when
\* A or B fails to load, the error being that of A when A fails and that of
\* B otherwise, with no result; when both load it has a result to return.
C18_CompareErrors ==
  /\ (pc \in {"failed", "loaded", "compared"}) =>
       LET a_ok == LoadFile(disk["a"]).ok
           b_ok == LoadFile(disk["b"]).ok
       IN /\ (pc = "failed") <=> ~(a_ok /\ b_ok)
          /\ (pc = "failed") =>
               /\ comparison = (IF ~a_ok THEN Err("a") ELSE Err("b"))
               /\ a_ini = NotLoaded /\ b_ini = NotLoaded
               /\ ~ENABLED Compare
          /\ (pc = "loaded") => ini_compare(a_ini, b_ini) # {}
          /\ (pc = "compared") => comparison.status = "ok"
  /\ (comparison.status = "err") => pc = "failed"

\* both files fail to load and ini_compare returned the error of A
C18_Witness ==
  /\ pc = "failed"
  /\ ~LoadFile(disk["a"]).ok
  /\ ~LoadFile(disk["b"]).ok
  /\ disk["a"] # disk["b"]
  /\ comparison = Err("a")

\* the loader reads back what the input files were written from
LoadRendersBack ==
  pc = "loaded" =>
    /\ Render(a_ini) = disk["a"]
    /\ \/ Render(b_ini) = disk["b"]
       \/ RenderTight(b_ini) = disk["b"]
       \/ \E v \in Values :
            <<";", " ">> \o Format(version, v) \o <<NL>> \o Render(b_ini) = disk["b"]

\* the places of a text where a literal starts
Places(text, pat) ==
  {j \in 1..(Len(text) - Len(pat) + 1) : SubSeq(text, j, j + Len(pat) - 1) = pat}

\* C21 (replacement is not section-scoped): when the turn of a pair of
\* updated that is not protected comes, every occurrence of its new literal
\* in the text, wherever it is (another section, a comment, inside a longer
\* property name), is replaced by its old literal.
C21_EveryOccurrenceReplaced ==
  [][Patching =>
       \A i \in 1..Len(Updated) :
         ~Protected(Updated[i]) =>
           LET before == TextBefore(file_stream, i)
               after == TextBefore(file_stream, i + 1)
               old == OldLiteral(Updated[i])
               new == NewLiteral(Updated[i])
               places == Places(before, new)
               grow == Len(old) - Len(new)
           IN /\ Len(after) = Len(before) + Cardinality(places) * grow
              /\ \A j \in places :
                   LET at == j + Cardinality({h \in places : h < j}) * grow
                   IN SubSeq(after, at, at + Len(old) - 1) = old]_vars

\* ini_update rewrote the comment line of the file, and a property of the
\* longer name that ini_compare did not report parses to another value
C21_Witness ==
  /\ Done
  /\ \E i \in 1..Len(Updated) :
       /\ ~Protected(Updated[i])
       /\ Len(file_stream) >= 2 + Len(OldLiteral(Updated[i]))
       /\ SubSeq(file_stream, 1, 2 + Len(OldLiteral(Updated[i])))
            = <<";", " ">> \o OldLiteral(Updated[i])
       /\ Occurrences(file_stream, OldLiteral(Updated[i])) >= 3
  /\ \E sp \in PairsOf(b_ini) :
       /\ sp[2] = config_file_version
       /\ CountInUpdated(Updated, sp) = 0
       /\ Load(file_stream).ok
       /\ ValueOf(Load(file_stream).ini, sp) # ValueOf(b_ini, sp)

\* C22 (protected set): the turn of a pair of updated whose new literal
\* occurs in the text leaves the text as it is if and only if the pair's
\* property is config_file_version, whatever the pair's section.
C22_ProtectedSet ==
  [][Patching =>
       \A i \in 1..Len(Updated) :
         Contains(TextBefore(file_stream, i), NewLiteral(Updated[i])) =>
           ((TextBefore(file_stream, i + 1) = TextBefore(file_stream, i))
              <=> Updated[i][2].property = config_file_version)]_vars

\* ini_update kept config_file_version of a named section and reverted
\* version of the same section
C22_Witness ==
  /\ Done
  /\ \E i \in 1..Len(Updated), j \in 1..Len(Updated) :
       /\ Updated[i][2].property = config_file_version
       /\ Updated[i][2].section # None
       /\ Contains(file_stream, NewLiteral(Updated[i]))
       /\ ~Contains(file_stream, OldLiteral(Updated[i]))
       /\ Updated[j][2].property = version
       /\ Updated[j][2].section = Updated[i][2].section
       /\ Contains(file_stream, OldLiteral(Updated[j]))
       /\ ~Contains(file_stream, NewLiteral(Updated[j]))

\* C23 (lost update): when another process replaces the target file after
\* ini_update has read it and before ini_update writes it, the file ends up
\* holding the substitution of the text read earlier and nothing of what
\* the other process wrote.
C23_LostUpdate ==
  (Done /\ arg # <<>>) => disk["b"] = file_stream

\* C24 (order of updated): the text ini_update writes is the same for every
\* order of the pairs of comparison.updated.
C24_OrderIndependent ==
  [][Patching =>
       \A order \in Perms(Range(Updated)) :
         Substitute(file_stream, order) = file_stream']_vars

\* C25 (idempotence): a second ini_update with the same comparison leaves
\* in the file the text the first one left.
C25_Idempotent ==
  (Done /\ arg # <<>>) => disk["b"] = arg.once

(***************************************************************************)
(* Properties of the stopwatch statistics.                                 *)
(***************************************************************************)
\* the step is a call of lap
Lapping == stored'.calls = stored.calls + 1

\* the step is s.merge(t)
Merging == "t" \in DOMAIN keepers /\ "t" \notin DOMAIN keepers'

\* the total of a lap name in statistics, zero when the lap is not there
TotalOf(stats, lap) ==
  IF lap \in DOMAIN stats.lap_totals THEN stats.lap_totals[lap][2] ELSE 0

\* the durations passed under a lap name to a keeper, and to the keeper
\* merged into it when merged holds
PassedTo(passed, merged, k, lap) ==
  PassedIn(passed, k, lap)
    + (IF k = "s" /\ merged THEN PassedIn(passed, "t", lap) ELSE 0)

\* C27 (store_lap): every call returns the total of its lap name after the
\* addition, which is the sum of the durations passed under that name, and
\* leaves the ids and totals of the other lap names as they were.
C27_StoreLap ==
  [][Lapping =>
       LET k == arg'.keeper
           lap == arg'.lap
           before == keepers[k].lap_totals
           after == keepers'[k].lap_totals
       IN /\ ret'.status = "ok"
          /\ lap \in DOMAIN after
          /\ after[lap][2] =
               PassedTo(stored'.passed, "t" \notin DOMAIN keepers', k, lap)
          /\ ret'.value = after[lap][2]
          /\ DOMAIN after = DOMAIN before \cup {lap}
          /\ \A other \in DOMAIN before \ {lap} : after[other] = before[other]]_vars

\* C28 (merge): after s.merge(t) the total of every lap name in s is the
\* total s had plus the total t had, zero for a keeper without the lap,
\* and s holds exactly the lap names s or t held.
C28_Merge ==
  [][Merging =>
       /\ DOMAIN keepers'["s"].lap_totals =
            DOMAIN keepers["s"].lap_totals \cup DOMAIN keepers["t"].lap_totals
       /\ \A lap \in LapNames \cup DOMAIN keepers'["s"].lap_totals :
            TotalOf(keepers'["s"], lap) =
              TotalOf(keepers["s"], lap) + TotalOf(keepers["t"], lap)]_vars

\* s with laps of its own took over from t a lap both had recorded and a
\* lap only t had recorded
C28_Witness ==
  /\ "t" \notin DOMAIN keepers
  /\ arg # <<>> /\ arg.fn = "merge"
  /\ \E both \in LapNames, other \in LapNames, own \in DOMAIN keepers["s"].lap_totals :
       /\ Passed("s", both) > 0 /\ Passed("t", both) > 0
       /\ TotalOf(keepers["s"], both) = Passed("s", both) + Passed("t", both)
       /\ other \notin DOMAIN stored.passed["s"]
       /\ Passed("t", other) > 0
       /\ TotalOf(keepers["s"], other) = Passed("t", other)
       /\ own \notin DOMAIN stored.passed["t"]

\* C29 (ids): in every keeper distinct lap names have distinct ids and
\* every id is at most max_id, so that ordering by id is one order.
C29_IdsDistinct ==
  \A k \in DOMAIN keepers :
    LET lap_totals == keepers[k].lap_totals
    IN /\ Cardinality({lap_totals[lap][1] : lap \in DOMAIN lap_totals})
            = Cardinality(DOMAIN lap_totals)
       /\ \A lap \in DOMAIN lap_totals : lap_totals[lap][1] <= keepers[k].max_id

(***************************************************************************)
(* Properties of the bit utilities.                                        *)
(***************************************************************************)
Returned(fn) == pc = "returned" /\ arg.fn = fn

\* the hexadecimal digit of a nibble given most significant bit first
Digit(nibble) ==
  <<"0", "1", "2", "3", "4", "5", "6", "7", "8", "9", "A", "B", "C", "D", "E", "F">>
    [8 * nibble[1] + 4 * nibble[2] + 2 * nibble[3] + nibble[4] + 1]

\* the digits of a vector padded with zero bits to a multiple of 4
HexDigits(vec) ==
  LET padded == vec \o Zeros((4 - (Len(vec) % 4)) % 4)
  IN [j \in 1..(Len(padded) \div 4) |-> Digit(SubSeq(padded, 4 * j - 3, 4 * j))]

\* C19 (bit_vec_to_hex_string): for a vector of n bits the call returns,
\* without panicking, the ceil(n/4) uppercase hexadecimal digits of the
\* vector padded with trailing zero bits to the next multiple of 4, most
\* significant nibble first; the 21 bits of the test give "D44EB0".
C19_HexString ==
  Returned("bit_vec_to_hex_string") =>
    /\ ret.status = "ok"
    /\ ret.value = HexDigits(arg.vec)
    /\ Len(ret.value) = (Len(arg.vec) + 3) \div 4
    /\ (arg.vec = TestVector) => ret.value = <<"D", "4", "4", "E", "B", "0">>

\* C20 (bits_to_vec): the call returns out_len elements, each 0 or 1,
\* element i (from 0) being bit out_len - 1 - i of bits; the bits of
\* weight 2^out_len and above are dropped.
C20_BitsToVec ==
  Returned("bits_to_vec") =>
    /\ Len(ret.value) = arg.out_len
    /\ \A i \in 0..(arg.out_len - 1) :
         ret.value[i + 1] = (arg.bits \div Pow2(arg.out_len - 1 - i)) % 2

\* a call that drops high bits and a call that fills zeros on the left
C20_Witness ==
  /\ Returned("bits_to_vec")
  /\ arg.out_len > 2
  /\ \/ arg.bits >= Pow2(arg.out_len) /\ arg.bits % Pow2(arg.out_len) # 0
     \/ arg.bits # 0 /\ arg.bits * 4 < Pow2(arg.out_len)

\* the value of eight bits given most significant bit first
ByteOf(bits) ==
  128 * bits[1] + 64 * bits[2] + 32 * bits[3] + 16 * bits[4]
    + 8 * bits[5] + 4 * bits[6] + 2 * bits[7] + bits[8]

\* the bytes of a vector padded with zero bits to a multiple of 8
BytesOf(vec) ==
  LET padded == vec \o Zeros((8 - (Len(vec) % 8)) % 8)
  IN [j \in 1..(Len(padded) \div 8) |-> ByteOf(SubSeq(padded, 8 * j - 7, 8 * j))]

\* C30 (bit_vec_to_byte_vec): for a vector of n bits the call returns,
\* without panicking, ceil(n/8) bytes: the vector padded with trailing zero
\* bits to the next multiple of 8 and packed 8 bits per byte, element 0 the
\* most significant bit.
C30_ByteVec ==
  Returned("bit_vec_to_byte_vec") =>
    /\ ret.status = "ok"
    /\ Len(ret.value) = (Len(arg.vec) + 7) \div 8
    /\ ret.value = BytesOf(arg.vec)

====
